---- MODULE Spec2Model ----
(***************************************************************************)
(* ResQLink-Backend: the HTTP handlers of package user                     *)
(* (src/internal/user/server.go) and of package disaster                   *)
(* (src/unnamed/part_000).  Each package has its own Server, built by its  *)
(* own NewServer around its own repository; the two share no state.        *)
(* A handler decodes the request, makes at most one repository call and    *)
(* maps (result, error) to an api.Response envelope.                       *)
(*                                                                         *)
(* The repositories and the photo uploader are interfaces to the handlers: *)
(* their implementations are not among the sources, so they are modelled   *)
(* from the specification (the repository operators and uploadPhoto).     *)
(***************************************************************************)
EXTENDS Integers, Sequences, FiniteSets, TLC

\* ---------------------------------------------------------------- bounds
MaxEmails  == 2      \* e-mail addresses a client may use
MaxTokens  == 2      \* session tokens the repository issues in one run
MaxReports == 1      \* disaster reports the repository stores in one run
MaxFiles   == 2      \* files under the form field "photos" in one request

\* const maxBodySize = 10 << 20
maxBodySize == 10485760

Emails      == 1..MaxEmails
Passwords   == {"pw1", "pw2"}
NoUser      == "none"
Tokens      == 1..MaxTokens
EmptyToken  == 0                     \* the empty string as a token
UserIDs     == {"u1", "u2"}       \* the IDs a path or a body may name
Reporters   == {"u1"}             \* the IDs reports are submitted under
NoReporter  == "nil"                 \* UserID == nil
NoResponder == "nil"
Responders  == {"resp1"}
baseURL     == "base"

VARIABLES
  pkg,        \* which Server was constructed: "user" or "disaster"
  users,      \* user repository: e-mail -> password, NoUser when unregistered
  sessions,   \* user repository: the valid session tokens
  nextToken,  \* user repository: the last token issued
  reports,    \* disaster repository: the stored reports, in creation order
  storage,    \* photo storage: the URLs uploaded so far
  resp,       \* the last request and what its handler returned
  signedOut,  \* history: issued tokens for which SignOut has returned 200
  created     \* history: per e-mail, how many SignUp requests returned 201

vars == <<pkg, users, sessions, nextToken, reports, storage, resp, signedOut, created>>

\* ------------------------------------------------------- api.Response
NoData == [kind |-> "none"]

\* api.Response{Error, Code, Message, Data}; err = "nil" is a nil Error
Envelope(code, err, message, data) ==
  [code |-> code, err |-> err, message |-> message,
   hasData |-> data # NoData, data |-> data]

Min(a, b) == IF a < b THEN a ELSE b
\* ============================================================ package user
\* ---- user.Repository, as the specification describes it.  fault is a
\* ---- failure of the backend that is none of the domain errors.

\* Repository.SignUp: the e-mail is unique among the registered users
repoSignUp(us, data, fault) ==
  IF fault THEN [err |-> "other", users |-> us]
  ELSE IF us[data.email] # NoUser THEN [err |-> "23505", users |-> us]
  ELSE [err |-> "nil", users |-> [us EXCEPT ![data.email] = data.password]]

\* Repository.SignIn: verifies the credentials and issues a fresh token
repoSignIn(us, ss, nt, data, fault) ==
  IF fault THEN [err |-> "other", data |-> NoData, sessions |-> ss, nextToken |-> nt]
  ELSE IF us[data.email] = NoUser
    THEN [err |-> "ErrNoRows", data |-> NoData, sessions |-> ss, nextToken |-> nt]
  ELSE IF us[data.email] # data.password
    THEN [err |-> "errInvalidPassword", data |-> NoData, sessions |-> ss, nextToken |-> nt]
  ELSE [err |-> "nil",
        data |-> [kind |-> "signIn", user |-> data.email, token |-> nt + 1],
        sessions |-> ss \cup {nt + 1}, nextToken |-> nt + 1]

\* Repository.SignInAnonymous: no password; any anonymous ID obtains a session
repoSignInAnonymous(ss, nt, anonymousID, fault) ==
  IF fault THEN [err |-> "other", data |-> NoData, sessions |-> ss, nextToken |-> nt]
  ELSE [err |-> "nil",
        data |-> [kind |-> "anonymous", user |-> anonymousID, token |-> nt + 1],
        sessions |-> ss \cup {nt + 1}, nextToken |-> nt + 1]

\* Repository.invalidateSession: the session of the token is no longer valid
invalidateSession(ss, token, userID, fault) ==
  IF fault THEN [err |-> "other", sessions |-> ss]
  ELSE [err |-> "nil", sessions |-> ss \ {token}]

\* Repository.validateSessionToken: fails for a token with no valid session
validateSessionToken(ss, token, fault) ==
  IF fault THEN [err |-> "other", data |-> NoData]
  ELSE IF token \notin ss THEN [err |-> "invalid", data |-> NoData]
  ELSE [err |-> "nil", data |-> [kind |-> "session", token |-> token]]

\* ---- the handlers: what one request returns and does to the repository.
\* ---- body.ok = FALSE is a body json.Decoder cannot decode.

\* what a handler that changes nothing in the repository leaves behind
UserState(us, ss, nt) == [users |-> us, sessions |-> ss, nextToken |-> nt]


\* SignUp with no test for the unique-violation code 23505
SignUpHandlerNoConflict(body, fault, us, ss, nt) ==
  IF ~body.ok
  THEN [env |-> Envelope(400, "decode", <<"Invalid sign up request.">>, NoData),
        repoCalls |-> 0, repoErr |-> "nocall", state |-> UserState(us, ss, nt)]
  ELSE LET r == repoSignUp(us, body, fault) IN
    [env |-> IF r.err # "nil"
             THEN Envelope(500, r.err, <<"Failed to sign up.">>, NoData)
             ELSE Envelope(201, "nil", <<"Successfully signed up.">>, NoData),
     repoCalls |-> 1, repoErr |-> r.err, state |-> UserState(r.users, ss, nt)]

SignUpHandler(body, fault, us, ss, nt) ==
  IF ~body.ok
  THEN [env |-> Envelope(400, "decode", <<"Invalid sign up request.">>, NoData),
        repoCalls |-> 0, repoErr |-> "nocall", state |-> UserState(us, ss, nt)]
  ELSE LET r == repoSignUp(us, body, fault) IN
    [env |-> IF r.err # "nil"
             THEN IF r.err = "23505"
                  THEN Envelope(409, r.err, <<"User ", body.email, " already exists.">>, NoData)
                  ELSE Envelope(500, r.err, <<"Failed to sign up.">>, NoData)
             ELSE Envelope(201, "nil", <<"Successfully signed up.">>, NoData),
     repoCalls |-> 1, repoErr |-> r.err, state |-> UserState(r.users, ss, nt)]


\* SignIn with the statuses of the two credential errors exchanged
SignInHandlerSwapped(body, fault, us, ss, nt) ==
  IF ~body.ok
  THEN [env |-> Envelope(400, "decode", <<"Invalid sign in request.">>, NoData),
        repoCalls |-> 0, repoErr |-> "nocall", state |-> UserState(us, ss, nt)]
  ELSE LET r == repoSignIn(us, ss, nt, body, fault) IN
    [env |-> IF r.err # "nil"
             THEN IF r.err = "ErrNoRows"
                  THEN Envelope(401, r.err, <<"Invalid credentials.">>, NoData)
                  ELSE IF r.err = "errInvalidPassword"
                  THEN Envelope(404, r.err, <<"Invalid password.">>, NoData)
                  ELSE Envelope(500, r.err, <<"Failed to sign in.">>, NoData)
             ELSE Envelope(200, "nil", <<"Successfully signed in.">>, r.data),
     repoCalls |-> 1, repoErr |-> r.err, state |-> UserState(us, r.sessions, r.nextToken)]

SignInHandler(body, fault, us, ss, nt) ==
  IF ~body.ok
  THEN [env |-> Envelope(400, "decode", <<"Invalid sign in request.">>, NoData),
        repoCalls |-> 0, repoErr |-> "nocall", state |-> UserState(us, ss, nt)]
  ELSE LET r == repoSignIn(us, ss, nt, body, fault) IN
    [env |-> IF r.err # "nil"
             THEN IF r.err = "ErrNoRows"
                  THEN Envelope(404, r.err, <<"Invalid credentials.">>, NoData)
                  ELSE IF r.err = "errInvalidPassword"
                  THEN Envelope(401, r.err, <<"Invalid password.">>, NoData)
                  ELSE Envelope(500, r.err, <<"Failed to sign in.">>, NoData)
             ELSE Envelope(200, "nil", <<"Successfully signed in.">>, r.data),
     repoCalls |-> 1, repoErr |-> r.err, state |-> UserState(us, r.sessions, r.nextToken)]

SignInAnonymousHandler(body, fault, us, ss, nt) ==
  IF ~body.ok
  THEN [env |-> Envelope(400, "decode", <<"Invalid anonymous sign in request.">>, NoData),
        repoCalls |-> 0, repoErr |-> "nocall", state |-> UserState(us, ss, nt)]
  ELSE LET r == repoSignInAnonymous(ss, nt, body.anonymousID, fault) IN
    [env |-> IF r.err # "nil"
             THEN Envelope(500, r.err, <<"Failed to sign in as anonymous.">>, NoData)
             ELSE Envelope(200, "nil", <<"Successfully signed in as anonymous.">>, r.data),
     repoCalls |-> 1, repoErr |-> r.err, state |-> UserState(us, r.sessions, r.nextToken)]


\* SignOut with the error of invalidateSession dropped
SignOutHandlerIgnoresError(body, fault, us, ss, nt) ==
  IF ~body.ok
  THEN [env |-> Envelope(400, "decode", <<"Invalid sign out request.">>, NoData),
        repoCalls |-> 0, repoErr |-> "nocall", state |-> UserState(us, ss, nt)]
  ELSE LET r == invalidateSession(ss, body.token, body.id, fault) IN
    [env |-> Envelope(200, "nil", <<"Successfully signed out.">>, NoData),
     repoCalls |-> 1, repoErr |-> r.err, state |-> UserState(us, r.sessions, nt)]

SignOutHandler(body, fault, us, ss, nt) ==
  IF ~body.ok
  THEN [env |-> Envelope(400, "decode", <<"Invalid sign out request.">>, NoData),
        repoCalls |-> 0, repoErr |-> "nocall", state |-> UserState(us, ss, nt)]
  ELSE LET r == invalidateSession(ss, body.token, body.id, fault) IN
    [env |-> IF r.err # "nil"
             THEN Envelope(500, r.err, <<"Failed to sign out.">>, NoData)
             ELSE Envelope(200, "nil", <<"Successfully signed out.">>, NoData),
     repoCalls |-> 1, repoErr |-> r.err, state |-> UserState(us, r.sessions, nt)]


\* GetSession answering an invalid token 401 instead of 500
GetSessionHandlerUnauthorized(token, fault, us, ss, nt) ==
  LET r == validateSessionToken(ss, token, fault) IN
    [env |-> IF r.err # "nil"
             THEN IF r.err = "invalid"
                  THEN Envelope(401, r.err, <<"Failed to get user session.">>, NoData)
                  ELSE Envelope(500, r.err, <<"Failed to get user session.">>, NoData)
             ELSE Envelope(200, "nil", <<"Successfully fetched user session.">>, r.data),
     repoCalls |-> 1, repoErr |-> r.err, state |-> UserState(us, ss, nt)]

GetSessionHandler(token, fault, us, ss, nt) ==
  LET r == validateSessionToken(ss, token, fault) IN
    [env |-> IF r.err # "nil"
             THEN Envelope(500, r.err, <<"Failed to get user session.">>, NoData)
             ELSE Envelope(200, "nil", <<"Successfully fetched user session.">>, r.data),
     repoCalls |-> 1, repoErr |-> r.err, state |-> UserState(us, ss, nt)]


\* AuthMiddleware with the return after the failed validation missing
AuthMiddlewareHandlerFallsThrough(r, fault, ss) ==
  IF ~r.hasCookie
  THEN [status |-> 401, err |-> "ErrNoCookie", repoCalls |-> 0, next |-> <<>>]
  ELSE LET v == validateSessionToken(ss, r.session, fault) IN
    IF v.err # "nil"
    THEN [status |-> 401, err |-> v.err, repoCalls |-> 1, next |-> <<r>>]
    ELSE [status |-> 0, err |-> "nil", repoCalls |-> 1, next |-> <<r>>]

\* the http.HandlerFunc AuthMiddleware returns; next is the log of the
\* requests handed to next.ServeHTTP, status the status it writes itself
\* (0: the response is left to next)
AuthMiddlewareHandler(r, fault, ss) ==
  IF ~r.hasCookie
  THEN [status |-> 401, err |-> "ErrNoCookie", repoCalls |-> 0, next |-> <<>>]
  ELSE LET v == validateSessionToken(ss, r.session, fault) IN
    IF v.err # "nil"
    THEN [status |-> 401, err |-> v.err, repoCalls |-> 1, next |-> <<>>]
    ELSE [status |-> 0, err |-> "nil", repoCalls |-> 1, next |-> <<r>>]
\* ======================================================== package disaster
\* ---- disaster.Repository and the photo uploader, as the specification
\* ---- describes them.  A stored report keeps the fields the handlers and
\* ---- the responder assignment decide; name, status and rawSituation are
\* ---- opaque strings handed through.

repoListDisasterReports(rs, fault) ==
  IF fault THEN [err |-> "other", data |-> NoData]
  ELSE [err |-> "nil", data |-> [kind |-> "reports", list |-> rs]]

repoListDisasterReportsByReporter(rs, reporterID, fault) ==
  IF fault THEN [err |-> "other", data |-> NoData]
  ELSE [err |-> "nil",
        data |-> [kind |-> "reports",
                  list |-> SelectSeq(rs, LAMBDA x : x.reporter = reporterID)]]

\* Repository.CreateDisasterReport: a new report, no responder assigned
repoCreateDisasterReport(rs, data, fault) ==
  IF fault THEN [err |-> "other", reports |-> rs]
  ELSE [err |-> "nil",
        reports |-> Append(rs, [reporter |-> data.userID,
                                photoURLs |-> data.photoURLs,
                                responder |-> NoResponder])]

\* Repository.SetResponder: assigns the responder to the reporter's reports
repoSetResponder(rs, data, fault) ==
  IF fault THEN [err |-> "other", data |-> NoData, reports |-> rs]
  ELSE IF \A i \in 1..Len(rs) : rs[i].reporter # data.reporterID
    THEN [err |-> "ErrNoRows", data |-> NoData, reports |-> rs]
  ELSE [err |-> "nil",
        data |-> [kind |-> "assignment", reporterID |-> data.reporterID,
                  responderID |-> data.responderID],
        reports |-> [i \in 1..Len(rs) |->
                       IF rs[i].reporter = data.reporterID
                       THEN [rs[i] EXCEPT !.responder = data.responderID]
                       ELSE rs[i]]]

\* uploadPhoto(fileHeader, baseURL): stores the file and returns its URL, or fails
uploadPhoto(fileHeader, base, ok, st) ==
  IF ok THEN [err |-> "nil", url |-> <<base, fileHeader>>, storage |-> st \cup {<<base, fileHeader>>}]
  ELSE [err |-> "upload", url |-> <<>>, storage |-> st]

\* ---- the handlers

ListDisasterReportsByReporterHandler(reporterID, fault, rs) ==
  LET r == repoListDisasterReportsByReporter(rs, reporterID, fault) IN
    [env |-> IF r.err # "nil"
             THEN Envelope(500, r.err, <<"Failed to get disaster reports.">>, NoData)
             ELSE Envelope(200, "nil", <<"Successfully fetched disaster reports.">>, r.data),
     repoCalls |-> 1, repoErr |-> r.err, uploads |-> <<>>, reports |-> rs]

ListDisasterReportsHandler(fault, rs) ==
  LET r == repoListDisasterReports(rs, fault) IN
    [env |-> IF r.err # "nil"
             THEN Envelope(500, r.err, <<"Failed to get disaster reports.">>, NoData)
             ELSE Envelope(200, "nil", <<"Successfully fetched disaster reports.">>, r.data),
     repoCalls |-> 1, repoErr |-> r.err, uploads |-> <<>>, reports |-> rs]


\* CreateDisasterReportJson with the error of the repository dropped
CreateDisasterReportJsonHandlerIgnoresError(body, fault, rs) ==
  IF ~body.ok
  THEN [env |-> Envelope(400, "decode", <<"Failed to create disaster report.">>, NoData),
        repoCalls |-> 0, repoErr |-> "nocall", uploads |-> <<>>, reports |-> rs]
  ELSE LET r == repoCreateDisasterReport(rs, body, fault) IN
    [env |-> Envelope(201, "nil", <<"Successfully created disaster report.">>, NoData),
     repoCalls |-> 1, repoErr |-> r.err, uploads |-> <<>>, reports |-> r.reports]

CreateDisasterReportJsonHandler(body, fault, rs) ==
  IF ~body.ok
  THEN [env |-> Envelope(400, "decode", <<"Failed to create disaster report.">>, NoData),
        repoCalls |-> 0, repoErr |-> "nocall", uploads |-> <<>>, reports |-> rs]
  ELSE LET r == repoCreateDisasterReport(rs, body, fault) IN
    [env |-> IF r.err # "nil"
             THEN Envelope(500, r.err, <<"Failed to create disaster report.">>, NoData)
             ELSE Envelope(201, "nil", <<"Successfully created disaster report.">>, NoData),
     repoCalls |-> 1, repoErr |-> r.err, uploads |-> <<>>, reports |-> r.reports]

\* http.MaxBytesReader(w, r.Body, maxBodySize) and r.ParseMultipartForm
ParseMultipartForm(body) ==
  IF ~body.wellFormed \/ body.size > maxBodySize THEN "parse" ELSE "nil"


\* the upload loop putting each new URL in front of the collected ones
RECURSIVE uploadPhotosPrepend(_, _, _, _)
uploadPhotosPrepend(photos, upOk, i, acc) ==
  IF i > Len(photos) THEN acc
  ELSE LET u == uploadPhoto(photos[i], baseURL, upOk[i], acc.storage)
           log == Append(acc.log, [file |-> photos[i], ok |-> u.err = "nil"])
       IN IF u.err # "nil"
          THEN [err |-> u.err, urls |-> acc.urls, log |-> log, storage |-> u.storage]
          ELSE uploadPhotosPrepend(photos, upOk, i + 1,
                 [err |-> "nil", urls |-> <<u.url>> \o acc.urls, log |-> log,
                  storage |-> u.storage])

\* for _, fileHeader := range photos: one upload after the other, the
\* loop left at the first upload that fails.  acc.log is the uploader's
\* call log of this request.
RECURSIVE uploadPhotos(_, _, _, _)
uploadPhotos(photos, upOk, i, acc) ==
  IF i > Len(photos) THEN acc
  ELSE LET u == uploadPhoto(photos[i], baseURL, upOk[i], acc.storage)
           log == Append(acc.log, [file |-> photos[i], ok |-> u.err = "nil"])
       IN IF u.err # "nil"
          THEN [err |-> u.err, urls |-> acc.urls, log |-> log, storage |-> u.storage]
          ELSE uploadPhotos(photos, upOk, i + 1,
                 [err |-> "nil", urls |-> Append(acc.urls, u.url), log |-> log,
                  storage |-> u.storage])

\* CreateDisasterReport with the return after a failed upload missing: the
\* report is persisted with the URLs collected so far
CreateDisasterReportHandlerFallsThrough(body, upOk, fault, rs, st) ==
  IF ParseMultipartForm(body) # "nil"
  THEN [env |-> Envelope(400, "parse", <<"Failed to parse disaster report form data.">>, NoData),
        repoCalls |-> 0, repoErr |-> "nocall", uploads |-> <<>>,
        reports |-> rs, storage |-> st]
  ELSE LET userID == IF body.userId # "" THEN body.userId ELSE NoReporter
           up == uploadPhotos(body.photos, upOk, 1,
                   [err |-> "nil", urls |-> <<>>, log |-> <<>>, storage |-> st])
           r == repoCreateDisasterReport(rs,
                          [userID |-> userID, photoURLs |-> up.urls], fault)
       IN [env |-> IF r.err # "nil"
                   THEN Envelope(500, r.err, <<"Failed to create disaster report.">>, NoData)
                   ELSE Envelope(201, "nil", <<"Successfully created disaster report.">>, NoData),
           repoCalls |-> 1, repoErr |-> r.err, uploads |-> up.log,
           reports |-> r.reports, storage |-> up.storage]

CreateDisasterReportHandler(body, upOk, fault, rs, st) ==
  IF ParseMultipartForm(body) # "nil"
  THEN [env |-> Envelope(400, "parse", <<"Failed to parse disaster report form data.">>, NoData),
        repoCalls |-> 0, repoErr |-> "nocall", uploads |-> <<>>,
        reports |-> rs, storage |-> st]
  ELSE LET userID == IF body.userId # "" THEN body.userId ELSE NoReporter
           up == uploadPhotos(body.photos, upOk, 1,
                   [err |-> "nil", urls |-> <<>>, log |-> <<>>, storage |-> st])
       IN IF up.err # "nil"
          THEN [env |-> Envelope(500, up.err, <<"Failed to upload photo.">>, NoData),
                repoCalls |-> 0, repoErr |-> "nocall", uploads |-> up.log,
                reports |-> rs, storage |-> up.storage]
          ELSE LET r == repoCreateDisasterReport(rs,
                          [userID |-> userID, photoURLs |-> up.urls], fault) IN
            [env |-> IF r.err # "nil"
                     THEN Envelope(500, r.err, <<"Failed to create disaster report.">>, NoData)
                     ELSE Envelope(201, "nil", <<"Successfully created disaster report.">>, NoData),
             repoCalls |-> 1, repoErr |-> r.err, uploads |-> up.log,
             reports |-> r.reports, storage |-> up.storage]

\* SetResponder with no comparison of the body's reporterID and the path's
SetResponderHandlerNoMatch(body, reporterId, fault, rs) ==
  IF ~body.ok
  THEN [env |-> Envelope(400, "decode", <<"Invalid set responder request.">>, NoData),
        repoCalls |-> 0, repoErr |-> "nocall", uploads |-> <<>>, reports |-> rs]
  ELSE LET r == repoSetResponder(rs, body, fault) IN
    [env |-> IF r.err # "nil"
             THEN Envelope(400, r.err, <<"Failed to set responder.">>, NoData)
             ELSE Envelope(200, "nil", <<"Successfully set responder.">>, r.data),
     repoCalls |-> 1, repoErr |-> r.err, uploads |-> <<>>, reports |-> r.reports]

\* SetResponder answering 400 on the success path as well
SetResponderHandlerBadStatus(body, reporterId, fault, rs) ==
  IF ~body.ok
  THEN [env |-> Envelope(400, "decode", <<"Invalid set responder request.">>, NoData),
        repoCalls |-> 0, repoErr |-> "nocall", uploads |-> <<>>, reports |-> rs]
  ELSE IF body.reporterID # reporterId
  THEN [env |-> Envelope(400, "mismatch", <<"Reporter ID in path and body doesn't match.">>, NoData),
        repoCalls |-> 0, repoErr |-> "nocall", uploads |-> <<>>, reports |-> rs]
  ELSE LET r == repoSetResponder(rs, body, fault) IN
    [env |-> IF r.err # "nil"
             THEN Envelope(400, r.err, <<"Failed to set responder.">>, NoData)
             ELSE Envelope(400, "nil", <<"Successfully set responder.">>, r.data),
     repoCalls |-> 1, repoErr |-> r.err, uploads |-> <<>>, reports |-> r.reports]

SetResponderHandler(body, reporterId, fault, rs) ==
  IF ~body.ok
  THEN [env |-> Envelope(400, "decode", <<"Invalid set responder request.">>, NoData),
        repoCalls |-> 0, repoErr |-> "nocall", uploads |-> <<>>, reports |-> rs]
  ELSE IF body.reporterID # reporterId
  THEN [env |-> Envelope(400, "mismatch", <<"Reporter ID in path and body doesn't match.">>, NoData),
        repoCalls |-> 0, repoErr |-> "nocall", uploads |-> <<>>, reports |-> rs]
  ELSE LET r == repoSetResponder(rs, body, fault) IN
    [env |-> IF r.err # "nil"
             THEN Envelope(400, r.err, <<"Failed to set responder.">>, NoData)
             ELSE Envelope(200, "nil", <<"Successfully set responder.">>, r.data),
     repoCalls |-> 1, repoErr |-> r.err, uploads |-> <<>>, reports |-> r.reports]
\* ================================================================ requests
Bool == {TRUE, FALSE}
Undecodable == [ok |-> FALSE]

SignUpBodies == {Undecodable} \cup [ok : {TRUE}, email : Emails, password : Passwords]
SignInBodies == {Undecodable} \cup [ok : {TRUE}, email : Emails, password : Passwords]
SignInAnonymousBodies == {Undecodable} \cup [ok : {TRUE}, anonymousID : {"anon1"}]
SignOutBodies == {Undecodable} \cup [ok : {TRUE}, id : {"u1"}, token : {EmptyToken} \cup Tokens]
SessionRequests == {[hasCookie |-> FALSE]} \cup [hasCookie : {TRUE}, session : {EmptyToken} \cup Tokens]

CreateReportBodies ==
  {Undecodable} \cup [ok : {TRUE}, userID : {NoReporter} \cup Reporters,
                       photoURLs : {<<>>, <<<<baseURL, 1>>>>}]
MultipartBodies ==
  {[wellFormed |-> FALSE, size |-> 1, userId |-> "", photos |-> <<>>],
   [wellFormed |-> TRUE, size |-> maxBodySize + 1, userId |-> "", photos |-> <<>>]}
  \cup [wellFormed : {TRUE}, size : {maxBodySize}, userId : {""} \cup Reporters,
        photos : {[i \in 1..n |-> i] : n \in 0..MaxFiles}]
SetResponderBodies ==
  {Undecodable} \cup [ok : {TRUE}, reporterID : UserIDs, responderID : Responders]

\* the last request: its handler and input, and what the handler did
Result(handler, req, env, repoCalls, repoErr, uploads, next) ==
  [handler |-> handler, req |-> req, env |-> env, repoCalls |-> repoCalls,
   repoErr |-> repoErr, uploads |-> uploads, next |-> next]

\* ================================================================== Init
\* NewServer(repository) of either package, around an empty repository
Init ==
  /\ pkg \in {"user", "disaster"}
  /\ users = [e \in Emails |-> NoUser]
  /\ sessions = {}
  /\ nextToken = 0
  /\ reports = <<>>
  /\ storage = {}
  /\ resp = Result("none", [ok |-> TRUE], Envelope(0, "nil", <<>>, NoData), 0, "nocall", <<>>, <<>>)
  /\ signedOut = {}
  /\ created = [e \in Emails |-> 0]

\* a user handler's effect on the repository of package user
UserEffect(out) ==
  /\ out.state.nextToken <= MaxTokens
  /\ users' = out.state.users
  /\ sessions' = out.state.sessions
  /\ nextToken' = out.state.nextToken
  /\ UNCHANGED <<pkg, reports, storage>>

\* ============================================================ user actions
SignUp ==
  /\ pkg = "user"
  /\ \E body \in SignUpBodies, fault \in Bool :
       LET out == SignUpHandler(body, fault, users, sessions, nextToken) IN
         /\ UserEffect(out)
         /\ resp' = Result("SignUp", body, out.env, out.repoCalls, out.repoErr, <<>>, <<>>)
         /\ created' = IF body.ok /\ out.env.code = 201
                       THEN [created EXCEPT ![body.email] = Min(@ + 1, 2)]
                       ELSE created
         /\ UNCHANGED signedOut

SignIn ==
  /\ pkg = "user"
  /\ \E body \in SignInBodies, fault \in Bool :
       LET out == SignInHandler(body, fault, users, sessions, nextToken) IN
         /\ UserEffect(out)
         /\ resp' = Result("SignIn", body, out.env, out.repoCalls, out.repoErr, <<>>, <<>>)
         /\ UNCHANGED <<signedOut, created>>

SignInAnonymous ==
  /\ pkg = "user"
  /\ \E body \in SignInAnonymousBodies, fault \in Bool :
       LET out == SignInAnonymousHandler(body, fault, users, sessions, nextToken) IN
         /\ UserEffect(out)
         /\ resp' = Result("SignInAnonymous", body, out.env, out.repoCalls, out.repoErr, <<>>, <<>>)
         /\ UNCHANGED <<signedOut, created>>

SignOut ==
  /\ pkg = "user"
  /\ \E body \in SignOutBodies, fault \in Bool :
       LET out == SignOutHandler(body, fault, users, sessions, nextToken) IN
         /\ UserEffect(out)
         /\ resp' = Result("SignOut", body, out.env, out.repoCalls, out.repoErr, <<>>, <<>>)
         /\ signedOut' = IF body.ok /\ out.env.code = 200 /\ body.token \in 1..nextToken
                         THEN signedOut \cup {body.token}
                         ELSE signedOut
         /\ UNCHANGED created

GetSession ==
  /\ pkg = "user"
  /\ \E token \in {EmptyToken} \cup Tokens, fault \in Bool :
       LET out == GetSessionHandler(token, fault, users, sessions, nextToken) IN
         /\ UserEffect(out)
         /\ resp' = Result("GetSession", [ok |-> TRUE, token |-> token], out.env,
                           out.repoCalls, out.repoErr, <<>>, <<>>)
         /\ UNCHANGED <<signedOut, created>>

AuthMiddleware ==
  /\ pkg = "user"
  /\ \E r \in SessionRequests, fault \in Bool :
       LET out == AuthMiddlewareHandler(r, fault, sessions) IN
         /\ resp' = Result("AuthMiddleware", r,
                           [code |-> out.status, err |-> out.err, message |-> <<>>,
                            hasData |-> FALSE, data |-> NoData],
                           out.repoCalls, out.err, <<>>, out.next)
         /\ UNCHANGED <<pkg, users, sessions, nextToken, reports, storage, signedOut, created>>

\* ======================================================== disaster actions
DisasterEffect(out) ==
  /\ Len(out.reports) <= MaxReports
  /\ reports' = out.reports
  /\ UNCHANGED <<pkg, users, sessions, nextToken, signedOut, created>>

ListDisasterReportsByReporter ==
  /\ pkg = "disaster"
  /\ \E reporterId \in UserIDs, fault \in Bool :
       LET out == ListDisasterReportsByReporterHandler(reporterId, fault, reports) IN
         /\ DisasterEffect(out)
         /\ resp' = Result("ListDisasterReportsByReporter", [ok |-> TRUE, path |-> reporterId],
                           out.env, out.repoCalls, out.repoErr, out.uploads, <<>>)
         /\ UNCHANGED storage

ListDisasterReports ==
  /\ pkg = "disaster"
  /\ \E fault \in Bool :
       LET out == ListDisasterReportsHandler(fault, reports) IN
         /\ DisasterEffect(out)
         /\ resp' = Result("ListDisasterReports", [ok |-> TRUE],
                           out.env, out.repoCalls, out.repoErr, out.uploads, <<>>)
         /\ UNCHANGED storage

CreateDisasterReportJson ==
  /\ pkg = "disaster"
  /\ \E body \in CreateReportBodies, fault \in Bool :
       LET out == CreateDisasterReportJsonHandler(body, fault, reports) IN
         /\ DisasterEffect(out)
         /\ resp' = Result("CreateDisasterReportJson", body,
                           out.env, out.repoCalls, out.repoErr, out.uploads, <<>>)
         /\ UNCHANGED storage

CreateDisasterReport ==
  /\ pkg = "disaster"
  /\ \E body \in MultipartBodies, fault \in Bool :
       \E upOk \in [1..Len(body.photos) -> Bool] :
         LET out == CreateDisasterReportHandler(body, upOk, fault, reports, storage) IN
           /\ DisasterEffect(out)
           /\ storage' = out.storage
           /\ resp' = Result("CreateDisasterReport",
                             [ok |-> ParseMultipartForm(body) = "nil", form |-> body, upOk |-> upOk],
                             out.env, out.repoCalls, out.repoErr, out.uploads, <<>>)

SetResponder ==
  /\ pkg = "disaster"
  /\ \E body \in SetResponderBodies, reporterId \in UserIDs, fault \in Bool :
       LET out == SetResponderHandler(body, reporterId, fault, reports) IN
         /\ DisasterEffect(out)
         /\ resp' = Result("SetResponder", [ok |-> body.ok, body |-> body, path |-> reporterId],
                           out.env, out.repoCalls, out.repoErr, out.uploads, <<>>)
         /\ UNCHANGED storage

Next ==
  \/ SignUp
  \/ SignIn
  \/ SignInAnonymous
  \/ SignOut
  \/ GetSession
  \/ AuthMiddleware
  \/ ListDisasterReportsByReporter
  \/ ListDisasterReports
  \/ CreateDisasterReportJson
  \/ CreateDisasterReport
  \/ SetResponder

Spec == Init /\ [][Next]_vars
\* ================================================================== claims
Code == resp.env.code

\* C1: once SignOut for an issued token T has returned 200, every later
\* GetSession with token=T returns a non-200 envelope and every later
\* request through AuthMiddleware with cookie session=T is answered 401
\* without next being invoked; T is no valid session any more.
SignedOutTokenRejected ==
  /\ (resp.handler = "GetSession" /\ resp.req.token \in signedOut) => Code # 200
  /\ (resp.handler = "AuthMiddleware" /\ resp.req.hasCookie /\ resp.req.session \in signedOut)
       => (Code = 401 /\ resp.next = <<>>)
  /\ signedOut \cap sessions = {}

SignedOutTokenRejectedWitness ==
  /\ resp.handler = "GetSession"
  /\ resp.req.token \in signedOut
  /\ resp.repoErr = "invalid"
  /\ sessions # {}

\* C3: AuthMiddleware invokes next if and only if the request carries the
\* cookie session and validateSessionToken on its value returns no error;
\* a missing cookie is answered 401 with no repository call and no call of
\* next, a failed validation 401 with no call of next, and on success next
\* is invoked exactly once with the request unchanged.
AuthMiddlewareGate ==
  resp.handler = "AuthMiddleware" =>
    /\ Len(resp.next) <= 1
    /\ (Len(resp.next) = 1) <=> (resp.req.hasCookie /\ resp.repoErr = "nil")
    /\ ~resp.req.hasCookie => (Code = 401 /\ resp.repoCalls = 0 /\ resp.next = <<>>)
    /\ (resp.req.hasCookie /\ resp.req.session \notin sessions)
         => (Code = 401 /\ resp.repoCalls = 1 /\ resp.next = <<>>)
    /\ (resp.req.hasCookie /\ resp.req.session \in sessions /\ resp.repoErr # "other")
         => resp.next = <<resp.req>>
    /\ resp.next # <<>> => (resp.next = <<resp.req>> /\ Code # 401)

AuthMiddlewareGateWitness ==
  /\ resp.handler = "AuthMiddleware"
  /\ resp.next = <<resp.req>>
  /\ resp.req.session \in sessions

\* C5: a SignUp with a decodable payload whose e-mail is not yet registered
\* returns 201 with no data; a SignUp with an e-mail already registered
\* never returns 201 and returns 409 with a message naming that e-mail
\* (the unique violation is never answered 500); any other repository
\* failure returns 500; at most one request per e-mail has returned 201.
SignUpUniqueness ==
  [][(resp'.handler = "SignUp" /\ resp'.req.ok) =>
       LET e == resp'.req.email
           other == resp'.repoErr = "other"
       IN /\ (users[e] = NoUser /\ ~other)
               => (resp'.env.code = 201 /\ ~resp'.env.hasData /\ users'[e] = resp'.req.password)
          /\ users[e] # NoUser
               => /\ resp'.env.code # 201
                  /\ users'[e] = users[e]
                  /\ ~other => /\ resp'.env.code = 409
                               /\ resp'.env.message = <<"User ", e, " already exists.">>
          /\ other <=> resp'.env.code = 500
          /\ created'[e] <= 1]_vars

SignUpUniquenessWitness ==
  /\ resp.handler = "SignUp"
  /\ Code = 409
  /\ created[resp.req.email] = 1

\* C6: for a decodable {email, password} body SignIn returns 200 with
\* {user, token} and a non-empty token when the credentials are correct,
\* 404 when no user has that e-mail, 401 when the e-mail is known and the
\* password wrong, 500 for any other repository failure; the outcomes are
\* exclusive and a token is returned only with 200.
SignInStatusMapping ==
  (resp.handler = "SignIn" /\ resp.req.ok) =>
    LET e == resp.req.email
        known == users[e] # NoUser
        good == users[e] = resp.req.password
        other == resp.repoErr = "other"
    IN /\ Code \in {200, 404, 401, 500}
       /\ Code = 200 => /\ good
                        /\ resp.env.hasData
                        /\ resp.env.data.kind = "signIn"
                        /\ resp.env.data.user = e
                        /\ resp.env.data.token # EmptyToken
                        /\ resp.env.data.token \in sessions
       /\ Code = 404 => ~known
       /\ Code = 401 => (known /\ ~good)
       /\ Code = 500 <=> other
       /\ ~other => /\ good => Code = 200
                    /\ ~known => Code = 404
                    /\ (known /\ ~good) => Code = 401
       /\ Code # 200 => ~resp.env.hasData

SignInStatusMappingWitness ==
  /\ resp.handler = "SignIn"
  /\ Code = 401
  /\ \E e \in Emails : users[e] = NoUser
\* the first upload of a request that fails, 0 when none does
RECURSIVE FirstFailure(_, _)
FirstFailure(upOk, i) ==
  IF i > Len(upOk) THEN 0 ELSE IF ~upOk[i] THEN i ELSE FirstFailure(upOk, i + 1)

URLsOf(photos, n) == [i \in 1..n |-> <<baseURL, photos[i]>>]

\* C2: in multipart CreateDisasterReport, when the upload of the k-th file
\* under "photos" fails the handler returns 500, the repository is not
\* called and the stored reports are unchanged, no further file is
\* uploaded, and the uploader has been invoked exactly once for each of the
\* k-1 preceding files, whose uploads stay in the storage.
MultipartAllOrNothing ==
  [][(/\ resp'.handler = "CreateDisasterReport"
      /\ resp'.req.ok
      /\ FirstFailure(resp'.req.upOk, 1) # 0) =>
       LET photos == resp'.req.form.photos
           k == FirstFailure(resp'.req.upOk, 1)
       IN /\ resp'.env.code = 500
          /\ resp'.repoCalls = 0
          /\ reports' = reports
          /\ resp'.uploads = [i \in 1..k |-> [file |-> photos[i], ok |-> i < k]]
          /\ storage' = storage \cup {<<baseURL, photos[i]>> : i \in 1..(k - 1)}]_vars

MultipartAllOrNothingWitness ==
  /\ resp.handler = "CreateDisasterReport"
  /\ Code = 500
  /\ Len(resp.uploads) = 2
  /\ ~resp.uploads[2].ok
  /\ <<baseURL, resp.req.form.photos[1]>> \in storage
  /\ reports = <<>>

\* C4: a body that fails to decode (SignUp, SignIn, SignInAnonymous,
\* SignOut, CreateDisasterReportJson, SetResponder), a multipart form that
\* fails to parse or exceeds 10 MiB, and a SetResponder body whose
\* reporterID differs from the path's each yield 400 with no repository
\* call and no uploader call, and all stored state is unchanged.
MalformedRequest(r) ==
  \/ /\ r.handler \in {"SignUp", "SignIn", "SignInAnonymous", "SignOut",
                       "CreateDisasterReportJson"}
     /\ ~r.req.ok
  \/ /\ r.handler = "CreateDisasterReport"
     /\ (~r.req.form.wellFormed \/ r.req.form.size > 10 * 1024 * 1024)
  \/ /\ r.handler = "SetResponder"
     /\ (~r.req.body.ok \/ r.req.body.reporterID # r.req.path)

MalformedNeverReachesRepository ==
  [][MalformedRequest(resp') =>
       /\ resp'.env.code = 400
       /\ resp'.repoCalls = 0
       /\ resp'.uploads = <<>>
       /\ UNCHANGED <<users, sessions, nextToken, reports, storage>>]_vars

MalformedNeverReachesRepositoryWitness ==
  /\ resp.handler = "SetResponder"
  /\ resp.req.body.ok
  /\ resp.req.body.reporterID # resp.req.path
  /\ \E i \in 1..Len(reports) : reports[i].reporter = resp.req.body.reporterID
  /\ Code = 400

\* C7: a repository or uploader failure that is neither the unique
\* violation of SignUp nor the no-row / invalid-password error of SignIn
\* yields 500 in every handler but SetResponder (GetSession with an
\* invalid token included) and 400 in SetResponder, which returns 200
\* with the updated assignment only when the repository call succeeds.
DomainError(r) ==
  \/ r.handler = "SignUp" /\ r.repoErr = "23505"
  \/ r.handler = "SignIn" /\ r.repoErr \in {"ErrNoRows", "errInvalidPassword"}

UploadFailed(r) ==
  Len(r.uploads) > 0 /\ ~r.uploads[Len(r.uploads)].ok

GenericFailureMapping ==
  /\ (/\ resp.handler \in {"SignUp", "SignIn", "SignInAnonymous", "SignOut", "GetSession",
                           "ListDisasterReports", "ListDisasterReportsByReporter",
                           "CreateDisasterReportJson", "CreateDisasterReport"}
      /\ (resp.repoErr \notin {"nil", "nocall"} \/ UploadFailed(resp))
      /\ ~DomainError(resp)) => Code = 500
  /\ (resp.handler = "GetSession" /\ resp.req.token \notin sessions) => Code = 500
  /\ (resp.handler = "SetResponder" /\ resp.repoErr \notin {"nil", "nocall"}) => Code = 400
  /\ (resp.handler = "SetResponder" /\ Code = 200) =>
       /\ resp.repoCalls = 1
       /\ resp.repoErr = "nil"
       /\ resp.env.data = [kind |-> "assignment", reporterID |-> resp.req.path,
                           responderID |-> resp.req.body.responderID]
       /\ \E i \in 1..Len(reports) :
            /\ reports[i].reporter = resp.req.path
            /\ reports[i].responder = resp.req.body.responderID

GenericFailureMappingWitness ==
  /\ resp.handler = "GetSession"
  /\ resp.repoErr = "invalid"
  /\ Code = 500
  /\ sessions # {}

\* C8: in multipart CreateDisasterReport the files under "photos" are
\* uploaded one at a time in the order of the form, upload i+1 only after
\* upload i has succeeded, the repository is called only after every
\* upload has succeeded, the persisted photoURLs are the returned URLs in
\* file order, one per file (none when there are no files), and an empty
\* userId is persisted as no reporter.
PhotoUploadOrdering ==
  (resp.handler = "CreateDisasterReport" /\ resp.req.ok) =>
    LET photos == resp.req.form.photos
        log == resp.uploads
    IN /\ Len(log) <= Len(photos)
       /\ \A i \in 1..Len(log) : /\ log[i].file = photos[i]
                                 /\ i < Len(log) => log[i].ok
       /\ resp.repoCalls = 1 => /\ Len(log) = Len(photos)
                                /\ \A i \in 1..Len(log) : log[i].ok
       /\ Code = 201 =>
            /\ Len(reports) > 0
            /\ reports[Len(reports)].photoURLs = URLsOf(photos, Len(photos))
            /\ reports[Len(reports)].reporter =
                 (IF resp.req.form.userId = "" THEN NoReporter ELSE resp.req.form.userId)
            /\ URLsOf(photos, Len(photos)) \in Seq(storage)

PhotoUploadOrderingWitness ==
  /\ resp.handler = "CreateDisasterReport"
  /\ Code = 201
  /\ Len(resp.req.form.photos) = 2
  /\ resp.req.form.userId = ""
  /\ reports[Len(reports)].reporter = NoReporter

\* C9: a report comes into existence only through a create request that
\* returns 201, its only mutation is the responder assignment of a
\* SetResponder that returns 200, no handler removes a report, and the
\* list handlers and every request that ends in a failure code leave the
\* reports and their assignments unchanged.
ReportLifecycle ==
  [][LET r == resp'
         n == Len(reports)
     IN /\ reports' # reports =>
             \/ /\ r.handler \in {"CreateDisasterReportJson", "CreateDisasterReport"}
                /\ r.env.code = 201
                /\ Len(reports') = n + 1
                /\ SubSeq(reports', 1, n) = reports
                /\ reports'[n + 1].responder = NoResponder
             \/ /\ r.handler = "SetResponder"
                /\ r.env.code = 200
                /\ Len(reports') = n
                /\ \A i \in 1..n :
                     /\ reports'[i].reporter = reports[i].reporter
                     /\ reports'[i].photoURLs = reports[i].photoURLs
                     /\ reports'[i].responder # reports[i].responder =>
                          /\ reports'[i].responder = r.req.body.responderID
                          /\ reports'[i].responder # NoResponder
        /\ (/\ r.handler \in {"CreateDisasterReportJson", "CreateDisasterReport"}
            /\ r.env.code = 201) => Len(reports') = n + 1
        /\ (\/ r.handler \in {"ListDisasterReports", "ListDisasterReportsByReporter"}
            \/ r.env.code \notin {200, 201}) => reports' = reports
        /\ Len(reports') >= n]_vars

ReportLifecycleWitness ==
  /\ resp.handler = "SetResponder"
  /\ Code = 200
  /\ \E i \in 1..Len(reports) : reports[i].responder # NoResponder

\* C10: every envelope-returning handler makes at most one repository call
\* per request, returns 200 or 201 only if that call was made and returned
\* no error, returns a non-nil Error exactly when the code is neither 200
\* nor 201, and sets Data only on a 200 envelope.
EnvelopeHandlers ==
  {"SignUp", "SignIn", "SignInAnonymous", "SignOut", "GetSession",
   "ListDisasterReportsByReporter", "CreateDisasterReportJson", "CreateDisasterReport",
   "ListDisasterReports", "SetResponder"}

EnvelopeConsistency ==
  resp.handler \in EnvelopeHandlers =>
    /\ resp.repoCalls <= 1
    /\ Code \in {200, 201} => (resp.repoCalls = 1 /\ resp.repoErr = "nil")
    /\ (resp.env.err # "nil") <=> (Code \notin {200, 201})
    /\ resp.env.hasData => Code = 200

EnvelopeConsistencyWitness ==
  /\ resp.handler = "CreateDisasterReportJson"
  /\ Code = 201
  /\ ~resp.env.hasData
  /\ Len(reports) > 0
====
